---- MODULE Spec2Model ----
(***************************************************************************)
(* Model of opensock.c: a helper that opens an AF_PACKET raw socket for    *)
(* EtherType 0x88b5, joins the link-layer multicast group                  *)
(* 71:b3:d5:3a:6f:00 on the interface named by argv[1], moves the socket   *)
(* to descriptor 42 and execs argv[2].                                     *)
(*                                                                         *)
(* The state is the process as the kernel sees it (descriptor table,       *)
(* credentials, the packet socket) together with main's locals and its     *)
(* position.  One action per statement of main.                            *)
(***************************************************************************)
EXTENDS Integers, Sequences, FiniteSets, TLC

\* ---------------------------------------------------------------- bounds
\* size of the modelled descriptor table: slots 0 .. NumFds-1
NumFds == 45
\* longest argument vector handed to main
MaxArgc == 4
\* a lowered RLIMIT_NOFILE (soft limit) the helper may be started under
RlimLow == 32

\* ------------------------------------------------------ program constants
\* dup2(sock, 42)
FixedSlot == 42
\* htons(0x88b5)
EtherType == 34997
\* if (argc < 3)
MinArgc == 3
\* packet_mreq.mr_alen
MrAlen == 6
\* packet_mreq.mr_address  { 0x71, 0xb3, 0xd5, 0x3a, 0x6f, 0x00 }
MrAddress == <<113, 179, 213, 58, 111, 0>>

\* ------------------------------------------------------------ environment
Fds == 0 .. (NumFds - 1)

\* what a descriptor slot refers to: nothing, a regular file / pipe / tty,
\* a socket inherited from the invoking process, or the packet socket that
\* main creates
SlotKinds == {"closed", "file", "sock", "rawsock"}
SocketTyped == {"sock", "rawsock"}

\* interfaces known to the host: name -> kernel index
IfTable == [n \in {"lo", "eth0"} |-> IF n = "lo" THEN 1 ELSE 2]
IfArgs == {"lo", "eth0", "doesnotexist0"}
\* programs execvp can find on the search path
OnPath == {"/bin/echo"}
ProgArgs == {"/bin/echo", "nosuchprog"}

\* argument vectors: argv[0] is the helper, argv[1] an interface name,
\* argv[2] a program, the rest its arguments.  C's argv[i] is argv[i+1] here.
ArgPos(i) ==
    IF i = 1 THEN {"opensock"}
    ELSE IF i = 2 THEN IfArgs
    ELSE IF i = 3 THEN ProgArgs
    ELSE {"hello"}

ArgVectors ==
    UNION { { a \in [1 .. n -> IfArgs \cup ProgArgs \cup {"opensock", "hello"}] :
                \A i \in 1 .. n : a[i] \in ArgPos(i) } : n \in 1 .. MaxArgc }

\* descriptor tables the invoking process may hand over: slots 0..low-1
\* open, some further slots open above them, some of the open slots sockets
LowOpenChoices == {0, 3, FixedSlot - 1, FixedSlot, FixedSlot + 1}
ExtraOpenSlots == {5, FixedSlot}
InheritedSockSlots == {0, 5, FixedSlot}

MkTable(low, extra, socks) ==
    [fd \in Fds |->
        IF fd < low \/ fd \in extra
        THEN IF fd \in socks THEN "sock" ELSE "file"
        ELSE "closed"]

InheritedTables ==
    { MkTable(low, extra, socks) :
        low \in LowOpenChoices,
        extra \in SUBSET ExtraOpenSlots,
        socks \in SUBSET InheritedSockSlots }

\* how the binary was installed (header comment), or not installed at all
InstallModes == {"setcap", "setuid", "plain"}

\* credentials of the process when main starts, as execve of the installed
\* binary sets them up
StartCreds(mode) ==
    [ruid |-> 1000,
     euid |-> IF mode = "setuid" THEN 0 ELSE 1000,
     caps |-> IF mode = "setuid" THEN {"CAP_NET_RAW", "CAP_SYS_ADMIN"}
              ELSE IF mode = "setcap" THEN {"CAP_NET_RAW"}
              ELSE {}]

VARIABLES
    pc,         \* position in main
    argv,       \* argument vector (argc is its length)
    fds,        \* descriptor table of the process
    inherited,  \* the descriptor table as it was when main started
    rlimit,     \* RLIMIT_NOFILE
    bigEndian,  \* byte order of the host
    creds,      \* credentials of the process
    sock,       \* int sock
    ifidx,      \* unsigned int ifidx
    ss,         \* int ss
    dupret,     \* value returned by dup2, which main discards
    sk,         \* the packet socket: EtherType filter and memberships
    errout,     \* diagnostics written to stderr
    exitStatus, \* exit status of the process, -1 while it has none
    image,      \* program image the process is running
    steps       \* library / system calls attempted so far, in order

vars == <<pc, argv, fds, inherited, rlimit, bigEndian, creds, sock, ifidx,
          ss, dupret, sk, errout, exitStatus, image, steps>>

argc == Len(argv)

\* ---------------------------------------------------------------- helpers
\* htons: host to network byte order of a 16-bit value
Swap16(x) == (x % 256) * 256 + (x \div 256)
htons(x) == IF bigEndian THEN x ELSE Swap16(x)

\* the EtherType the kernel filters on, given the protocol argument of
\* socket(): the argument's two bytes in memory, read most significant first
WireProto(p) == IF bigEndian THEN p ELSE Swap16(p)

\* lowest descriptor not in use; NumFds when the table is full
LowestFree(t) ==
    IF \E fd \in Fds : t[fd] = "closed"
    THEN CHOOSE fd \in Fds : t[fd] = "closed" /\ \A g \in Fds : g < fd => t[g] # "closed"
    ELSE NumFds

\* socket(AF_PACKET, SOCK_RAW, ...) needs CAP_NET_RAW and a free slot below
\* the descriptor limit; the result is the new descriptor or -1
SocketResult(t) ==
    IF "CAP_NET_RAW" \notin creds.caps THEN -1
    ELSE IF LowestFree(t) >= rlimit \/ LowestFree(t) >= NumFds THEN -1
    ELSE LowestFree(t)

\* if_nametoindex: the index of a known interface, 0 otherwise
if_nametoindex(name) ==
    IF name \in DOMAIN IfTable THEN IfTable[name] ELSE 0

\* dup2(oldfd, newfd): result and the table afterwards
Dup2Ok(t, oldfd, newfd) ==
    /\ oldfd \in Fds
    /\ t[oldfd] # "closed"
    /\ newfd \in Fds
    /\ newfd < rlimit

Dup2Result(t, oldfd, newfd) ==
    IF Dup2Ok(t, oldfd, newfd) THEN newfd ELSE -1

Dup2Table(t, oldfd, newfd) ==
    IF Dup2Ok(t, oldfd, newfd) /\ oldfd # newfd
    THEN [t EXCEPT ![newfd] = t[oldfd]]
    ELSE t

\* a close that leaves the descriptor open
CloseTableLeavesOpen(t, fd) == t

\* close(fd): the table afterwards
CloseTable(t, fd) ==
    IF fd \in Fds THEN [t EXCEPT ![fd] = "closed"] ELSE t

\* the same tests, each with a slip in the comparison
TooFewArgsOffByOne(n) == n < MinArgc - 1
SocketFailedZero(s) == s = 0
IfNotFoundSigned(i) == i < 0
SetsockoptFailedPositive(r) == r > 0

\* the tests main makes on its results
TooFewArgs(n) == n < MinArgc
SocketFailed(s) == s < 0
IfNotFound(i) == i = 0
SetsockoptFailed(r) == r < 0

\* struct packet_mreq multi
multi(idx) ==
    [mr_ifindex |-> idx,
     mr_type |-> "PACKET_MR_MULTICAST",
     mr_alen |-> MrAlen,
     mr_address |-> MrAddress]

\* credentials after execve of a target that is neither setuid nor carries
\* file capabilities: the effective uid is kept; a non-root process loses
\* its capabilities, a root process keeps the full set
ExecCreds(c) ==
    [c EXCEPT !.caps = IF c.euid = 0 THEN {"CAP_NET_RAW", "CAP_SYS_ADMIN"} ELSE {}]

\* ------------------------------------------------------------------- Init
Init ==
    /\ pc = "argcheck"
    /\ argv \in ArgVectors
    /\ inherited \in InheritedTables
    /\ fds = inherited
    /\ rlimit \in {RlimLow, NumFds}
    /\ bigEndian \in BOOLEAN
    /\ \E mode \in InstallModes : creds = StartCreds(mode)
    /\ sock = -1
    /\ ifidx = 0
    /\ ss = -1
    /\ dupret = 0
    /\ sk = [protocol |-> 0, mclist |-> {}]
    /\ errout = <<>>
    /\ exitStatus = -1
    /\ image = "opensock"
    /\ steps = <<>>

\* ---------------------------------------------------------------- actions
\* if (argc < 3) { fprintf(stderr, "Usage: ..."); return 1; }
CheckArgs ==
    /\ pc = "argcheck"
    /\ steps' = Append(steps, "argcheck")
    /\ IF TooFewArgs(argc)
       THEN /\ errout' = Append(errout, "Usage")
            /\ exitStatus' = 1
            /\ pc' = "exited"
       ELSE /\ pc' = "socket"
            /\ UNCHANGED <<errout, exitStatus>>
    /\ UNCHANGED <<dupret, argv, fds, inherited, rlimit, bigEndian, creds, sock,
                   ifidx, ss, sk, image>>

\* int sock = socket(AF_PACKET, SOCK_RAW, htons(0x88b5));
\* if (sock < 0) { perror("cannot open socket"); return 1; }
Socket ==
    /\ pc = "socket"
    /\ steps' = Append(steps, "socket")
    /\ sock' = SocketResult(fds)
    /\ IF sock' >= 0
       THEN /\ fds' = [fds EXCEPT ![sock'] = "rawsock"]
            /\ sk' = [protocol |-> WireProto(htons(EtherType)), mclist |-> {}]
       ELSE UNCHANGED <<fds, sk>>
    /\ IF SocketFailed(sock')
       THEN /\ errout' = Append(errout, "cannot open socket")
            /\ exitStatus' = 1
            /\ pc' = "exited"
       ELSE /\ pc' = "if_nametoindex"
            /\ UNCHANGED <<errout, exitStatus>>
    /\ UNCHANGED <<dupret, argv, inherited, rlimit, bigEndian, creds, ifidx, ss, image>>

\* unsigned int ifidx = if_nametoindex(argv[1]);
\* if (ifidx == 0) { perror("cannot find interface"); return 1; }
IfNameToIndex ==
    /\ pc = "if_nametoindex"
    /\ steps' = Append(steps, "if_nametoindex")
    /\ ifidx' = IF Len(argv) >= 2 THEN if_nametoindex(argv[2]) ELSE 0
    /\ IF IfNotFound(ifidx')
       THEN /\ errout' = Append(errout, "cannot find interface")
            /\ exitStatus' = 1
            /\ pc' = "exited"
       ELSE /\ pc' = "setsockopt"
            /\ UNCHANGED <<errout, exitStatus>>
    /\ UNCHANGED <<dupret, argv, fds, inherited, rlimit, bigEndian, creds, sock, ss,
                   sk, image>>

\* int ss = setsockopt(sock, SOL_PACKET, PACKET_ADD_MEMBERSHIP, &multi, ...);
\* if (ss < 0) { perror("cannot setsockopt"); return 1; }
\* The kernel accepts or rejects the request; a descriptor that is not the
\* packet socket is always rejected.
SetSockOpt ==
    /\ pc = "setsockopt"
    /\ steps' = Append(steps, "setsockopt")
    /\ \E accepted \in (IF sock \in Fds /\ fds[sock] = "rawsock"
                         THEN BOOLEAN ELSE {FALSE}) :
         /\ ss' = IF accepted THEN 0 ELSE -1
         /\ sk' = IF accepted
                  THEN [sk EXCEPT !.mclist = @ \cup {multi(ifidx)}]
                  ELSE sk
    /\ IF SetsockoptFailed(ss')
       THEN /\ errout' = Append(errout, "cannot setsockopt")
            /\ exitStatus' = 1
            /\ pc' = "exited"
       ELSE /\ pc' = "dup2"
            /\ UNCHANGED <<errout, exitStatus>>
    /\ UNCHANGED <<dupret, argv, fds, inherited, rlimit, bigEndian, creds, sock,
                   ifidx, image>>

\* dup2(sock, 42);      the result is not looked at
Dup2 ==
    /\ pc = "dup2"
    /\ steps' = Append(steps, "dup2")
    /\ fds' = Dup2Table(fds, sock, FixedSlot)
    /\ dupret' = Dup2Result(fds, sock, FixedSlot)
    /\ pc' = "close"
    /\ UNCHANGED <<argv, inherited, rlimit, bigEndian, creds, sock, ifidx,
                   ss, sk, errout, exitStatus, image>>

\* close(sock);
Close ==
    /\ pc = "close"
    /\ steps' = Append(steps, "close")
    /\ fds' = CloseTable(fds, sock)
    /\ pc' = "execvp"
    /\ UNCHANGED <<dupret, argv, inherited, rlimit, bigEndian, creds, sock, ifidx,
                   ss, sk, errout, exitStatus, image>>

\* execvp(argv[2], argv + 2);
\* On success the target's image replaces this one; otherwise execvp returns.
Execvp ==
    /\ pc = "execvp"
    /\ steps' = Append(steps, "execvp")
    /\ IF Len(argv) >= 3 /\ argv[3] \in OnPath
       THEN /\ image' = argv[3]
            /\ creds' = ExecCreds(creds)
            /\ pc' = "replaced"
       ELSE /\ pc' = "exec_failed"
            /\ UNCHANGED <<image, creds>>
    /\ UNCHANGED <<dupret, argv, fds, inherited, rlimit, bigEndian, sock, ifidx, ss,
                   sk, errout, exitStatus>>

\* the failure path of execvp returning 0 instead of 1
ExecFailedReturns0 ==
    /\ pc = "exec_failed"
    /\ errout' = Append(errout, "exec failed")
    /\ exitStatus' = 0
    /\ pc' = "exited"
    /\ UNCHANGED <<dupret, argv, fds, inherited, rlimit, bigEndian, creds, sock,
                   ifidx, ss, sk, image, steps>>

\* perror("exec failed"); return 1;
ExecFailed ==
    /\ pc = "exec_failed"
    /\ errout' = Append(errout, "exec failed")
    /\ exitStatus' = 1
    /\ pc' = "exited"
    /\ UNCHANGED <<dupret, argv, fds, inherited, rlimit, bigEndian, creds, sock,
                   ifidx, ss, sk, image, steps>>

Next ==
    \/ CheckArgs
    \/ Socket
    \/ IfNameToIndex
    \/ SetSockOpt
    \/ Dup2
    \/ Close
    \/ Execvp
    \/ ExecFailed

Spec == Init /\ [][Next]_vars

\* main runs on the only thread of the process and every call it makes
\* returns, so a step that is possible is eventually taken
LiveSpec == Spec /\ WF_vars(Next)

\* ------------------------------------------------------------- properties
Attempted(s) == \E i \in 1 .. Len(steps) : steps[i] = s

\* the moment of image replacement: execvp is about to be called or has been
AtExec == pc = "execvp" \/ Attempted("execvp")

Terminal(s) ==
    /\ pc = "exited"
    /\ exitStatus = 1
    /\ Len(errout) = 1
    /\ steps[Len(steps)] = s

\* C1: whenever image replacement is attempted, whatever descriptor socket()
\* returned (42 included), slot 42 is open and refers to the raw socket that
\* main created.
C1_Slot42HoldsSocketAtExec ==
    AtExec => fds[42] = "rawsock"

\* C2: every failing step (socket, if_nametoindex, setsockopt, dup2,
\* execvp) ends the run where it is detected: one diagnostic, exit status 1,
\* no later step; in particular nothing is closed or launched after a failed
\* dup2.
C2_EveryFailureTerminal ==
    /\ (Attempted("socket") /\ sock < 0) => Terminal("socket")
    /\ (Attempted("if_nametoindex") /\ ifidx = 0) => Terminal("if_nametoindex")
    /\ (Attempted("setsockopt") /\ ss < 0) => Terminal("setsockopt")
    /\ (Attempted("dup2") /\ dupret < 0) => Terminal("dup2")
    /\ (Attempted("execvp") /\ image = "opensock") =>
          (pc = "exec_failed" \/ Terminal("execvp"))

\* C3: at the moment of image replacement exactly one open descriptor refers
\* to the socket main created, and it is slot 42.
C3_ExactlyOneRefAtSlot42 ==
    AtExec => { fd \in Fds : fds[fd] = "rawsock" } = {42}

\* C4 (as stated): once the target runs, no descriptor other than 42, 0, 1, 2
\* is open and socket-typed, whatever table was inherited.
C4_NoOtherSocketOpen ==
    pc = "replaced" =>
        \A fd \in Fds \ {0, 1, 2, 42} : fds[fd] \notin SocketTyped

\* C4 (amended): once the target runs, every open socket-typed descriptor
\* other than 42, 0, 1, 2 is a socket the invoking process handed over in
\* that same slot; the descriptor socket() returned is closed.
C4_NoOtherSocketOpenedHere ==
    pc = "replaced" =>
        \A fd \in Fds \ {0, 1, 2, 42} :
            fds[fd] \in SocketTyped => (fds[fd] = "sock" /\ inherited[fd] = "sock")

C4_Witness ==
    /\ pc = "replaced"
    /\ sock = 3
    /\ fds[42] = "rawsock"
    /\ fds[3] = "closed"
    /\ fds[5] = "sock"

\* C5: installed with cap_net_raw=pe or setuid root, the target that takes
\* over is unprivileged: not the superuser and without capabilities.
C5_TargetUnprivileged ==
    pc = "replaced" => (creds.euid # 0 /\ creds.caps = {})

\* C6: with argc < 3 the run exits 1 after the usage diagnostic and does
\* nothing else: no socket, no lookup, no dup2, no close, no exec.
C6_TooFewArgsNoSideEffect ==
    Len(argv) < 3 =>
        /\ fds = inherited
        /\ sock = -1
        /\ sk.mclist = {}
        /\ image = "opensock"
        /\ \A i \in 1 .. Len(steps) : steps[i] = "argcheck"
        /\ pc \in {"argcheck", "exited"}
        /\ pc = "exited" => (exitStatus = 1 /\ errout = <<"Usage">>)

C6_Witness ==
    /\ pc = "exited"
    /\ Len(argv) = 2
    /\ errout = <<"Usage">>

\* C7: when argv[1] names no known interface the run exits 1 without a
\* group join, without a dup2 onto slot 42 (the table differs from the
\* inherited one only in the slot socket() returned), without a close and
\* without an exec.
C7_UnknownInterfaceStops ==
    (Len(argv) >= 3 /\ argv[2] \notin {"lo", "eth0"}) =>
        /\ ~Attempted("setsockopt")
        /\ ~Attempted("dup2")
        /\ ~Attempted("close")
        /\ ~Attempted("execvp")
        /\ sk.mclist = {}
        /\ image = "opensock"
        /\ \A fd \in Fds : fd # sock => fds[fd] = inherited[fd]
        /\ Attempted("if_nametoindex") => (pc = "exited" /\ exitStatus = 1)
        /\ pc \in {"argcheck", "socket", "if_nametoindex", "exited"}

C7_Witness ==
    /\ pc = "exited"
    /\ Attempted("if_nametoindex")
    /\ argv[2] = "doesnotexist0"
    /\ errout = <<"cannot find interface">>

\* C8: once dup2 or execvp is attempted, the join of 71:b3:d5:3a:6f:00 on the
\* index of the interface named by argv[1] has succeeded on the socket main
\* created (the only one it can place at slot 42), whose EtherType filter is
\* 0x88b5, and that is its only membership.
C8_JoinedBeforeRelocation ==
    (Attempted("dup2") \/ AtExec) =>
        /\ ss = 0
        /\ argv[2] \in {"lo", "eth0"}
        /\ sk.protocol = 34997
        /\ sk.mclist = {[mr_ifindex |-> IF argv[2] = "lo" THEN 1 ELSE 2,
                         mr_type |-> "PACKET_MR_MULTICAST",
                         mr_alen |-> 6,
                         mr_address |-> <<113, 179, 213, 58, 111, 0>>]}

C8_Witness ==
    /\ pc = "replaced"
    /\ fds[42] = "rawsock"
    /\ argv[2] = "eth0"
    /\ ss = 0

\* C9: every run ends, and ends either with the target's image running (no
\* exit status, nothing written by main) or with exit status 1 after exactly
\* one of the five diagnostics; main never exits 0 and after execvp is
\* attempted it only reports the failure and exits.
C9_Outcome ==
    /\ exitStatus # 0
    /\ pc = "exited" =>
          /\ exitStatus = 1
          /\ image = "opensock"
          /\ Len(errout) = 1
          /\ errout[1] \in {"Usage", "cannot open socket", "cannot find interface",
                            "cannot setsockopt", "exec failed"}
    /\ pc = "replaced" =>
          /\ exitStatus = -1
          /\ image # "opensock"
          /\ errout = <<>>
    /\ pc \notin {"exited", "replaced"} => (exitStatus = -1 /\ errout = <<>>)
    /\ Attempted("execvp") => pc \in {"exec_failed", "exited", "replaced"}

C9_TwoOutcomes ==
    [](C9_Outcome) /\ <>(pc \in {"exited", "replaced"})

C9_Witness ==
    /\ pc = "exited"
    /\ Attempted("execvp")
    /\ errout = <<"exec failed">>

\* C10: the steps are attempted in the order argument check, socket,
\* if_nametoindex, setsockopt, dup2, close, execvp, each at most once and
\* none before its predecessors; a refused socket() ends the run before any
\* interface lookup.
StepOrder ==
    <<"argcheck", "socket", "if_nametoindex", "setsockopt", "dup2", "close",
      "execvp">>

C10_FixedOrder ==
    /\ Len(steps) <= Len(StepOrder)
    /\ \A i \in 1 .. Len(steps) : steps[i] = StepOrder[i]
    /\ (Attempted("socket") /\ sock < 0) => ~Attempted("if_nametoindex")

C10_Witness ==
    /\ pc = "exited"
    /\ steps = <<"argcheck", "socket">>
    /\ sock < 0
====
